---- MODULE Spec2Model ----
(***************************************************************************)
(* Model of the "quiet mode" proxy of 2bored2wait-quarry.py: QuietBridge   *)
(* (a quarry Bridge subclass) relays chat packets between a game client    *)
(* (downstream) and a game server (upstream) and filters them while quiet  *)
(* mode is on.                                                             *)
(*                                                                         *)
(* Texts are sequences of one-character strings.  A packet body is a       *)
(* sequence of typed fields; a buffer is a body with a read position, as   *)
(* quarry's Buffer (save, restore, discard, read and the unpack calls).    *)
(***************************************************************************)
EXTENDS Integers, Sequences, FiniteSets, TLC

VARIABLES
    quiet_mode,       \* bridge id -> BOOLEAN            (QuietBridge.quiet_mode)
    upstream,         \* bridge id -> "None" | "open" | "closed"  (Bridge.upstream)
    downstream,       \* bridge id -> [closed, protocol_version]  (Bridge.downstream)
    sent_upstream,    \* packets written to the upstream peer by the last step
    sent_downstream,  \* packets written to the downstream peer by the last step
    raised,           \* the exception the last step ended with, or "none"
    stage,            \* bridge id -> how far the connection's login has come
    returned,         \* what the last step's call returned (auth data, profile)
    history,          \* what one bridge received, forwarded and toggled so far
    ev                \* the last step: operation, bridge, input and state before it

vars ==
    <<quiet_mode, upstream, downstream, sent_upstream, sent_downstream, raised,
      stage, returned, history, ev>>

----------------------------------------------------------------------------
(* Bounds *)

MaxTextLen == 1

(* Protocol version thresholds compared against in the source *)
V_1_8 == 47
V_1_19 == 759
V_1_19_1 == 760

Versions == {V_1_8 - 1, V_1_8, V_1_19 - 1, V_1_19, V_1_19_1}

----------------------------------------------------------------------------
(* Texts *)

Alphabet == {"/", "<", " "}

RECURSIVE StringsUpTo(_)
StringsUpTo(n) ==
    IF n = 0 THEN {<<>>}
    ELSE LET shorter == StringsUpTo(n - 1)
         IN  shorter \cup {Append(s, c) : s \in shorter, c \in Alphabet}

Suffixes == StringsUpTo(MaxTextLen)

SlashQuiet == <<"/", "q", "u", "i", "e", "t">>
Quiet == <<"q", "u", "i", "e", "t">>
Bases ==
    { <<>>,
      SlashQuiet,
      Quiet,
      <<"/", "q", "u", "i">>,
      <<"/", "h", "e", "l", "p">>,
      <<"<", "A", "l", "i", "c", "e", ">", " ", "h", "i">>,
      <<"S", "e", "r", "v", "e", "r", " ", "r", "e", "s", "t", "a", "r", "t",
        "i", "n", "g">> }

(* A base text, a base text followed by a short suffix, or one character   *)
(* followed by a base text.                                                *)
Texts ==
    {b \o s : b \in Bases, s \in Suffixes}
        \cup {<<c>> \o b : c \in Alphabet, b \in Bases}

startswith(s, prefix) ==
    /\ Len(s) >= Len(prefix)
    /\ SubSeq(s, 1, Len(prefix)) = prefix

(* str.strip(): leading and trailing whitespace removed *)
RECURSIVE lstrip(_)
lstrip(s) == IF s # <<>> /\ Head(s) = " " THEN lstrip(Tail(s)) ELSE s

RECURSIVE rstrip(_)
rstrip(s) ==
    IF s # <<>> /\ s[Len(s)] = " " THEN rstrip(SubSeq(s, 1, Len(s) - 1)) ELSE s

strip(s) == rstrip(lstrip(s))

----------------------------------------------------------------------------
(* Packet fields and buffers *)

Field(t, s, u, n) == [t |-> t, s |-> s, u |-> u, n |-> n]

Ident == Field("ident", <<>>, <<>>, 0)           \* the packet id varint
String(s) == Field("string", s, <<>>, 0)
Chat(s) == Field("chat", s, <<>>, 0)             \* pack_chat(text)
Optional(s) == Field("optional", s, <<>>, 0)     \* absent or empty when s = <<>>
Varint(n) == Field("varint", <<>>, <<>>, n)
Byte(n) == Field("byte", <<>>, <<>>, n)
Bool(n) == Field("bool", <<>>, <<>>, n)
Uuid(n) == Field("uuid", <<>>, <<>>, n)
SignedMessage(body, unsigned) == Field("signed_message", body, unsigned, 0)
Rest == Field("rest", <<>>, <<>>, 0)             \* fields the handlers never unpack

Packet(name, data) == [name |-> name, data |-> data]

(* The buffer the transport hands to a packet handler: the whole packet    *)
(* body, read position just after the packet id.                           *)
Received(payload) == [buff |-> <<Ident>> \o payload, pos |-> 1]

(* Buffer.save(): drop what was read, the rest is the saved contents *)
save(b) == [buff |-> SubSeq(b.buff, b.pos + 1, Len(b.buff)), pos |-> 0]
(* Buffer.restore(): back to the state at the last save() *)
restore(b) == [b EXCEPT !.pos = 0]
(* Buffer.discard(): skip to the end *)
discard(b) == [b EXCEPT !.pos = Len(b.buff)]
(* Buffer.read(): everything from the read position on *)
read(b) == SubSeq(b.buff, b.pos + 1, Len(b.buff))
(* Buffer.unpack_x(): the field at the read position, and the buffer after it *)
peek(b) == b.buff[b.pos + 1]
skip(b) == [b EXCEPT !.pos = @ + 1]

(* Mutant: the packet is written whether or not the connection is closed. *)
send_packet_ignoring_closed(closed, sent, name, data) ==
    Append(sent, Packet(name, data))

(* Protocol.send_packet(name, data...) on a connection: written to the     *)
(* peer unless the connection is closed.                                   *)
send_packet(closed, sent, name, data) ==
    IF closed THEN sent ELSE Append(sent, Packet(name, data))

----------------------------------------------------------------------------
(* QuietBridge.  A method takes the bridge as the record self and gives    *)
(* the bridge after the call.                                              *)

None == [none |-> TRUE, s |-> <<>>]
Str(s) == [none |-> FALSE, s |-> s]

Self(b) ==
    [ quiet_mode |-> quiet_mode[b],
      upstream |-> upstream[b],
      downstream |-> downstream[b],
      sent_upstream |-> <<>>,
      sent_downstream |-> <<>>,
      raised |-> "none" ]

to_downstream(self, name, data) ==
    [self EXCEPT !.sent_downstream =
        send_packet(self.downstream.closed, @, name, data)]

(* Mutant: every packet for the upstream is written twice. *)
to_upstream_twice(self, name, data) ==
    IF self.upstream = "None"
    THEN [self EXCEPT !.raised = "AttributeError"]
    ELSE [self EXCEPT !.sent_upstream =
             send_packet(self.upstream = "closed",
                         send_packet(self.upstream = "closed", @, name, data),
                         name, data)]

(* self.upstream is None until the upstream connection exists *)
to_upstream(self, name, data) ==
    IF self.upstream = "None"
    THEN [self EXCEPT !.raised = "AttributeError"]
    ELSE [self EXCEPT !.sent_upstream =
             send_packet(self.upstream = "closed", @, name, data)]

(* Mutant: the 1.19 wire shape is forgotten, 1.19 gets the older one. *)
send_system_no_1_19_branch(self, message) ==
    IF self.downstream.protocol_version >= V_1_19_1
    THEN to_downstream(self, "system_message", <<Chat(message), Bool(0)>>)
    ELSE to_downstream(self, "chat_message", <<Chat(message), Byte(0), Uuid(0)>>)

send_system(self, message) ==
    IF self.downstream.protocol_version >= V_1_19_1
    THEN to_downstream(self, "system_message", <<Chat(message), Bool(0)>>)
    ELSE IF self.downstream.protocol_version = V_1_19
    THEN to_downstream(self, "system_message", <<Chat(message), Varint(1)>>)
    ELSE to_downstream(self, "chat_message", <<Chat(message), Byte(0), Uuid(0)>>)

QuietModePrefix == <<"Q", "u", "i", "e", "t", " ", "m", "o", "d", "e", " ">>
Enabled == <<"e", "n", "a", "b", "l", "e", "d">>
Disabled == <<"d", "i", "s", "a", "b", "l", "e", "d">>
CantSend ==
    <<"C", "a", "n", "'", "t", " ", "s", "e", "n", "d", " ", "m", "e", "s",
      "s", "a", "g", "e", "s", " ", "w", "h", "i", "l", "e", " ", "i", "n",
      " ", "q", "u", "i", "e", "t", " ", "m", "o", "d", "e">>

(* Mutant: the toggle only ever switches quiet mode on. *)
toggle_quiet_mode_enable_only(self) ==
    LET switched == [self EXCEPT !.quiet_mode = TRUE]
        msg == QuietModePrefix \o Enabled
    IN  send_system(switched, msg)

(* Mutant: the notice is sent, the switch of the flag is lost. *)
toggle_quiet_mode_notice_only(self) ==
    LET action == IF ~ self.quiet_mode THEN Enabled ELSE Disabled
        msg == QuietModePrefix \o action
    IN  send_system(self, msg)

(* Mutant: the notice names the state quiet mode had before the switch. *)
toggle_quiet_mode_old_state(self) ==
    LET switched == [self EXCEPT !.quiet_mode = ~ self.quiet_mode]
        action == IF self.quiet_mode THEN Enabled ELSE Disabled
        msg == QuietModePrefix \o action
    IN  send_system(switched, msg)

toggle_quiet_mode(self) ==
    LET switched == [self EXCEPT !.quiet_mode = ~ self.quiet_mode]
        action == IF switched.quiet_mode THEN Enabled ELSE Disabled
        msg == QuietModePrefix \o action
    IN  send_system(switched, msg)

(* read_chat gives the text it returns (or None), the buffer as it leaves  *)
(* it, and the position code it unpacked on the way (NoPosition where the  *)
(* wire shape has none).                                                   *)
NoPosition == 0 - 1
Result(ret, buff, p_position) ==
    [ret |-> ret, buff |-> buff, p_position |-> p_position]

read_chat(self, buff, direction) ==
    LET b0 == save(buff)
        version == self.downstream.protocol_version
    IN  IF direction = "upstream"
        THEN Result(Str(peek(b0).s), discard(skip(b0)), NoPosition)
        ELSE IF version >= V_1_19_1
        THEN LET p_signed_message == peek(b0)
                 b1 == skip(skip(b0))            \* signed message, filter result
                 p_position == peek(b1).n
                 b2 == skip(b1)
                 p_sender_name == peek(b2).s
                 b3 == discard(skip(b2))
                 content == IF p_signed_message.u # <<>>
                            THEN p_signed_message.u
                            ELSE p_signed_message.s
             IN  IF p_position \notin {1, 2}
                 THEN Result(Str(<<":", ":", " ", "<">> \o p_sender_name
                                 \o <<">", " ">> \o content),
                             b3, p_position)
                 ELSE Result(None, b3, p_position)
        ELSE LET p_text == peek(b0).s
                 b1 == skip(b0)
             IN  IF version = V_1_19
                 THEN LET p_unsigned_text == peek(b1).s
                          b2 == skip(b1)
                          p_position == peek(b2).n
                          b3 == skip(skip(b2))   \* position, sender uuid
                          p_sender_name == peek(b3).s
                          b4 == discard(skip(b3))
                          shown == IF p_unsigned_text # <<>>
                                   THEN p_unsigned_text ELSE p_text
                      IN  IF p_position \notin {1, 2}
                          THEN Result(Str(<<"<">> \o p_sender_name
                                          \o <<">", " ">> \o shown),
                                      b4, p_position)
                          ELSE Result(None, b4, p_position)
                 ELSE IF version >= V_1_8
                 THEN LET p_position == peek(b1).n
                          b2 == discard(skip(b1))
                      IN  IF p_position \notin {1, 2} /\ strip(p_text) # <<>>
                          THEN Result(Str(p_text), b2, p_position)
                          ELSE Result(None, b2, p_position)
                 ELSE Result(Str(p_text), b1, NoPosition)

packet_upstream_chat_command(self, buff) ==
    LET command == peek(buff).s
        b1 == skip(buff)
    IN  IF command = Quiet
        THEN toggle_quiet_mode(self)             \* then buff.discard()
        ELSE to_upstream(self, "chat_command", read(restore(b1)))

(* Mutant: the quiet-mode branch is taken for slash texts instead of for   *)
(* plain texts.                                                            *)
packet_upstream_chat_message_slash_negated(self, buff) ==
    LET b0 == save(buff)
        r == read_chat(self, b0, "upstream")
        chat_message == r.ret.s
    IN  IF startswith(chat_message, SlashQuiet)
        THEN toggle_quiet_mode(self)
        ELSE IF self.quiet_mode /\ startswith(chat_message, <<"/">>)
        THEN send_system(self, CantSend)
        ELSE to_upstream(self, "chat_message", read(restore(r.buff)))

(* Mutant: the payload is read without restoring the buffer first. *)
packet_upstream_chat_message_no_restore(self, buff) ==
    LET b0 == save(buff)
        r == read_chat(self, b0, "upstream")
        chat_message == r.ret.s
    IN  IF startswith(chat_message, SlashQuiet)
        THEN toggle_quiet_mode(self)
        ELSE IF self.quiet_mode /\ ~ startswith(chat_message, <<"/">>)
        THEN send_system(self, CantSend)
        ELSE to_upstream(self, "chat_message", read(r.buff))

packet_upstream_chat_message(self, buff) ==
    LET b0 == save(buff)
        r == read_chat(self, b0, "upstream")
        chat_message == r.ret.s
    IN  IF startswith(chat_message, SlashQuiet)
        THEN toggle_quiet_mode(self)
        ELSE IF self.quiet_mode /\ ~ startswith(chat_message, <<"/">>)
        THEN send_system(self, CantSend)
        ELSE to_upstream(self, "chat_message", read(restore(r.buff)))

(* Mutant: no protocol-version test, only the "<" heuristic. *)
packet_downstream_chat_message_no_version_check(self, buff) ==
    LET r == read_chat(self, buff, "downstream")
        chat_message == r.ret
    IN  IF ~ chat_message.none /\ self.quiet_mode
           /\ startswith(chat_message.s, <<"<">>)
        THEN self
        ELSE to_downstream(self, "chat_message", read(restore(r.buff)))

(* Mutant: in quiet mode every message that decodes as chat is dropped. *)
packet_downstream_chat_message_suppress_all(self, buff) ==
    LET r == read_chat(self, buff, "downstream")
        chat_message == r.ret
    IN  IF self.quiet_mode /\ self.downstream.protocol_version >= V_1_19
        THEN self
        ELSE IF ~ chat_message.none /\ self.quiet_mode
        THEN self
        ELSE to_downstream(self, "chat_message", read(restore(r.buff)))

(* Mutant: texts that look like player chat are dropped whatever the mode. *)
packet_downstream_chat_message_always_filters(self, buff) ==
    LET r == read_chat(self, buff, "downstream")
        chat_message == r.ret
    IN  IF self.quiet_mode /\ self.downstream.protocol_version >= V_1_19
        THEN self
        ELSE IF ~ chat_message.none /\ startswith(chat_message.s, <<"<">>)
        THEN self
        ELSE to_downstream(self, "chat_message", read(restore(r.buff)))

packet_downstream_chat_message(self, buff) ==
    LET r == read_chat(self, buff, "downstream")
        chat_message == r.ret
    IN  IF self.quiet_mode /\ self.downstream.protocol_version >= V_1_19
        THEN self
        ELSE IF ~ chat_message.none /\ self.quiet_mode
                /\ startswith(chat_message.s, <<"<">>)
        THEN self
        ELSE to_downstream(self, "chat_message", read(restore(r.buff)))

(* Mutant: the base class's behaviour, closing the upstream as well. *)
downstream_disconnected_closes_upstream(self) ==
    IF self.upstream # "None" THEN [self EXCEPT !.upstream = "closed"] ELSE self

(* Called when the connection to the client is lost: only logs. *)
downstream_disconnected(self) ==
    IF self.upstream # "None" THEN self ELSE self

----------------------------------------------------------------------------
(* The credential store (accounts.json), get_credentials, auth_ok and      *)
(* make_profile.                                                           *)

(* An account entry is complete but for its profile id, which may be a     *)
(* value, the empty string, null, or a missing key.                        *)
Missing == "<missing>"
Null == "<null>"
StoredId == "069a79f4"
StoredName == <<"N", "o", "t", "c", "h">>
StoredToken == "token"
Account(id) == [ygg_token |-> StoredToken, id |-> id, name |-> StoredName]

NoFile == [isfile |-> FALSE, accounts |-> <<>>]
File(accounts) == [isfile |-> TRUE, accounts |-> accounts]
Stores ==
    {NoFile, File(<<>>)} \cup {File(<<Account(id)>>) : id \in {StoredId, "", Null, Missing}}

NoCredentials == [none |-> TRUE, client_token |-> "", access_token |-> "",
                  uuid |-> "", display_name |-> <<>>]
Credentials(account) ==
    [none |-> FALSE, client_token |-> account.ygg_token,
     access_token |-> account.ygg_token, uuid |-> account.id,
     display_name |-> account.name]

(* get_credentials gives the exception it ends with (or "none") and the    *)
(* credentials it returns (or None).                                       *)
get_credentials(store) ==
    IF ~ store.isfile
    THEN [raised |-> "none", ret |-> NoCredentials]
    ELSE IF store.accounts = <<>>
    THEN [raised |-> "IndexError", ret |-> NoCredentials]
    ELSE LET account == store.accounts[1]
         IN  IF account.id = Missing
             THEN [raised |-> "KeyError", ret |-> NoCredentials]
             ELSE [raised |-> "none", ret |-> Credentials(account)]

NoData == [none |-> TRUE, id |-> ""]
Data(id) == [none |-> FALSE, id |-> id]
SessionId == "853c80ef"

(* Protocol2b2t.auth_ok gives the exception it ends with (or "none"), the  *)
(* data it hands to the base class's auth_ok, and how often it read the    *)
(* credential store.                                                       *)
AuthResult(raised_, data, reads) ==
    [raised |-> raised_, data |-> data, reads |-> reads]

(* Mutant: one error for every store without a usable id. *)
auth_ok_one_error(data, store) ==
    IF data.none
    THEN LET r == get_credentials(store)
             credentials == r.ret
         IN  IF r.raised # "none" \/ credentials.none
                \/ credentials.uuid = "" \/ credentials.uuid = Null
             THEN AuthResult("RuntimeError: no credentials", NoData, 1)
             ELSE AuthResult("none", Data(credentials.uuid), 1)
    ELSE AuthResult("none", data, 0)

auth_ok(data, store) ==
    IF data.none
    THEN LET r == get_credentials(store)
             credentials == r.ret
         IN  IF r.raised # "none"
             THEN AuthResult(r.raised, NoData, 1)
             ELSE IF credentials.none
             THEN AuthResult("RuntimeError: no credentials", NoData, 1)
             ELSE IF credentials.uuid = "" \/ credentials.uuid = Null
             THEN AuthResult("RuntimeError: no uuid in credentials", NoData, 1)
             ELSE AuthResult("none", Data(credentials.uuid), 1)
    ELSE AuthResult("none", data, 0)

NoProfile == [kind |-> "none", display_name |-> <<>>, uuid |-> "",
              client_token |-> "", access_token |-> ""]
OfflineProfile(display_name) ==
    [kind |-> "offline", display_name |-> display_name, uuid |-> "",
     client_token |-> "", access_token |-> ""]
Profile(display_name, client_token, access_token, uuid) ==
    [kind |-> "online", display_name |-> display_name, uuid |-> uuid,
     client_token |-> client_token, access_token |-> access_token]

(* UUID.from_hex: a hexadecimal string is needed *)
from_hex_raises(hex) ==
    IF hex = Null THEN "TypeError" ELSE IF hex = "" THEN "ValueError" ELSE "none"

(* QuietBridge.make_profile gives the exception it ends with (or "none")   *)
(* and the profile it returns.                                             *)
make_profile(self, store) ==
    LET r == get_credentials(store)
        credentials == r.ret
    IN  IF r.raised # "none"
        THEN [raised |-> r.raised, ret |-> NoProfile]
        ELSE IF credentials.none
        THEN [raised |-> "none", ret |-> OfflineProfile(self.downstream.display_name)]
        ELSE IF from_hex_raises(credentials.uuid) # "none"
        THEN [raised |-> from_hex_raises(credentials.uuid), ret |-> NoProfile]
        ELSE [raised |-> "none",
              ret |-> Profile(credentials.display_name, credentials.client_token,
                              credentials.access_token, credentials.uuid)]

----------------------------------------------------------------------------
(* The state machine *)

Bridges == DOMAIN quiet_mode

State(b) ==
    IF stage[b] = "failed" THEN "Terminated"
    ELSE IF upstream[b] = "closed" THEN "Terminated"
    ELSE IF upstream[b] = "None" THEN "Authenticating"
    ELSE IF downstream[b].closed THEN "DetachedUpstreamOnly"
    ELSE "Bridged"

Positions == {0, 1, 2, 3}               \* chat, system, game info, other
Unsigned == {<<>>, <<"h", "i">>}
SenderName == <<"B", "o", "b">>
DisplayName == <<"S", "t", "e", "v", "e">>     \* the name the client logs in with

NoText == <<>>
NoPayload == <<>>
NoValue == [kind |-> "none"]

Detached == {b \in Bridges : State(b) = "DetachedUpstreamOnly"}

Event(op, b, text, position, payload) ==
    [ op |-> op, b |-> b, text |-> text, position |-> position,
      payload |-> payload, quiet |-> quiet_mode[b], state |-> State(b),
      data |-> NoData, store |-> NoFile, detached |-> Detached ]

StoreEvent(op, b, data, store) ==
    [Event(op, b, NoText, 0, NoPayload) EXCEPT !.data = data, !.store = store]

(* Mutant: quiet_mode assigned on the class, shared by every bridge. *)
CommitShared(b, self) ==
    /\ quiet_mode' = [c \in Bridges |-> self.quiet_mode]
    /\ upstream' = [upstream EXCEPT ![b] = self.upstream]
    /\ downstream' = [downstream EXCEPT ![b] = self.downstream]
    /\ sent_upstream' = self.sent_upstream
    /\ sent_downstream' = self.sent_downstream
    /\ raised' = self.raised
    /\ returned' = NoValue
    /\ stage' = stage

Commit(b, self) ==
    /\ quiet_mode' = [quiet_mode EXCEPT ![b] = self.quiet_mode]
    /\ upstream' = [upstream EXCEPT ![b] = self.upstream]
    /\ downstream' = [downstream EXCEPT ![b] = self.downstream]
    /\ sent_upstream' = self.sent_upstream
    /\ sent_downstream' = self.sent_downstream
    /\ raised' = self.raised
    /\ returned' = NoValue
    /\ stage' = stage

NoHistory ==
    [ recv_up |-> <<>>, fwd_up |-> <<>>, recv_down |-> <<>>, delivered |-> <<>>,
      toggles |-> 0, steps |-> 0 ]

Init ==
    /\ quiet_mode = <<>>
    /\ upstream = <<>>
    /\ downstream = <<>>
    /\ sent_upstream = <<>>
    /\ sent_downstream = <<>>
    /\ raised = "none"
    /\ stage = <<>>
    /\ returned = NoValue
    /\ history = NoHistory
    /\ ev = [ op |-> "init", b |-> 0, text |-> NoText, position |-> 0,
              payload |-> NoPayload, quiet |-> FALSE, state |-> "Connecting",
              data |-> NoData, store |-> NoFile, detached |-> {} ]

(* The factory accepts a downstream connection and builds its bridge: a    *)
(* new QuietBridge for every connection.                                   *)
AcceptOf(versions) ==
    /\ \E version \in versions :
        LET b == Len(quiet_mode) + 1
        IN  /\ quiet_mode' = Append(quiet_mode, FALSE)
            /\ upstream' = Append(upstream, "None")
            /\ downstream' = Append(downstream,
                   [closed |-> FALSE, protocol_version |-> version,
                    display_name |-> DisplayName])
            /\ stage' = Append(stage, "login")
            /\ ev' = [ op |-> "accept", b |-> b, text |-> NoText, position |-> 0,
                       payload |-> NoPayload, quiet |-> FALSE,
                       state |-> "Connecting", data |-> NoData,
                       store |-> NoFile, detached |-> Detached ]
    /\ sent_upstream' = <<>>
    /\ sent_downstream' = <<>>
    /\ raised' = "none"
    /\ returned' = NoValue
    /\ UNCHANGED history

(* One client session is followed: the first connection accepted. *)
Accept ==
    /\ Bridges = {}
    /\ AcceptOf(Versions)

(* Mutant: an exception in auth_ok ends the process, and every bridge. *)
AuthOkOfAborting(datas, stores) ==
    \E b \in Bridges, data \in datas, store \in stores :
        LET r == auth_ok(data, store)
        IN  /\ stage[b] = "login"
            /\ ~ downstream[b].closed
            /\ ev' = StoreEvent("auth_ok", b, data, store)
            /\ stage' = IF r.raised = "none"
                        THEN [stage EXCEPT ![b] = "joined"]
                        ELSE [c \in Bridges |-> "failed"]
            /\ raised' = r.raised
            /\ returned' = [kind |-> "auth", data |-> r.data, reads |-> r.reads]
            /\ sent_upstream' = <<>>
            /\ sent_downstream' = <<>>
            /\ UNCHANGED <<quiet_mode, upstream, downstream, history>>

(* The session server answered the hasJoined request (data), or answered   *)
(* with nothing (None): auth_ok.  An exception ends this connection's      *)
(* login; the process goes on.                                             *)
AuthOkOf(datas, stores) ==
    \E b \in Bridges, data \in datas, store \in stores :
        LET r == auth_ok(data, store)
        IN  /\ stage[b] = "login"
            /\ ~ downstream[b].closed
            /\ ev' = StoreEvent("auth_ok", b, data, store)
            /\ stage' = [stage EXCEPT ![b] =
                            IF r.raised = "none" THEN "joined" ELSE "failed"]
            /\ raised' = r.raised
            /\ returned' = [kind |-> "auth", data |-> r.data, reads |-> r.reads]
            /\ sent_upstream' = <<>>
            /\ sent_downstream' = <<>>
            /\ UNCHANGED <<quiet_mode, upstream, downstream, history>>

AuthOk == AuthOkOf({NoData, Data(SessionId)}, Stores)

(* The bridge resolves the profile for the upstream session: make_profile. *)
MakeProfileOf(stores) ==
    \E b \in Bridges, store \in stores :
        LET r == make_profile(Self(b), store)
        IN  /\ stage[b] = "joined"
            /\ ~ downstream[b].closed
            /\ ev' = StoreEvent("make_profile", b, NoData, store)
            /\ stage' = [stage EXCEPT ![b] =
                            IF r.raised = "none" THEN "connecting" ELSE "failed"]
            /\ raised' = r.raised
            /\ returned' = [kind |-> "profile", profile |-> r.ret]
            /\ sent_upstream' = <<>>
            /\ sent_downstream' = <<>>
            /\ UNCHANGED <<quiet_mode, upstream, downstream, history>>

MakeProfile == MakeProfileOf(Stores)

(* The upstream handshake succeeded: forwarding starts. *)
UpstreamReady ==
    \E b \in Bridges :
        /\ stage[b] = "connecting"
        /\ upstream[b] = "None"
        /\ ev' = Event("upstream_ready", b, NoText, 0, NoPayload)
        /\ Commit(b, [Self(b) EXCEPT !.upstream = "open"])
        /\ UNCHANGED history

(* The client's connection is lost; the bridge is told. *)
DownstreamConnectionLost ==
    \E b \in Bridges :
        /\ ~ downstream[b].closed
        /\ ev' = Event("downstream_disconnected", b, NoText, 0, NoPayload)
        /\ Commit(b, downstream_disconnected(
                         [Self(b) EXCEPT !.downstream.closed = TRUE]))
        /\ UNCHANGED history

(* Mutant: losing the server only detaches the client. *)
UpstreamConnectionLostKeepsBridge ==
    \E b \in Bridges :
        /\ upstream[b] = "open"
        /\ ev' = Event("upstream_disconnected", b, NoText, 0, NoPayload)
        /\ Commit(b, [Self(b) EXCEPT !.downstream.closed = TRUE])
        /\ UNCHANGED history

(* The server's connection is lost: the bridge ends, the client is closed. *)
UpstreamConnectionLost ==
    \E b \in Bridges :
        /\ upstream[b] = "open"
        /\ ev' = Event("upstream_disconnected", b, NoText, 0, NoPayload)
        /\ Commit(b, [Self(b) EXCEPT !.upstream = "closed",
                                     !.downstream.closed = TRUE])
        /\ UNCHANGED history

Forwarding(b) == upstream[b] = "open"

UpstreamChatCommandPayload(command) == <<String(command), Rest>>

UpstreamChatCommandOf(commands) ==
    \E b \in Bridges, command \in commands :
        LET payload == UpstreamChatCommandPayload(command)
        IN  /\ Forwarding(b)
            /\ ~ downstream[b].closed
            /\ downstream[b].protocol_version >= V_1_19
            /\ ev' = Event("packet_upstream_chat_command", b, command, 0, payload)
            /\ Commit(b, packet_upstream_chat_command(Self(b), Received(payload)))

RecvUpstreamChatCommand ==
    /\ UpstreamChatCommandOf(Texts)
    /\ UNCHANGED history

UpstreamChatMessagePayload(version, text) ==
    <<String(text)>> \o (IF version >= V_1_19 THEN <<Rest>> ELSE <<>>)

UpstreamChatMessageOf(texts) ==
    \E b \in Bridges, text \in texts :
        LET payload ==
                UpstreamChatMessagePayload(downstream[b].protocol_version, text)
        IN  /\ Forwarding(b)
            /\ ~ downstream[b].closed
            /\ ev' = Event("packet_upstream_chat_message", b, text, 0, payload)
            /\ Commit(b, packet_upstream_chat_message(Self(b), Received(payload)))

RecvUpstreamChatMessage ==
    /\ UpstreamChatMessageOf(Texts)
    /\ UNCHANGED history

(* A well-formed chat_message packet from the server, in the wire shape of *)
(* the connection's protocol version.                                      *)
DownstreamChatMessagePayload(version, text, unsigned, position) ==
    IF version >= V_1_19_1
    THEN <<SignedMessage(text, unsigned), Varint(0), Varint(position),
           Chat(SenderName), Rest>>
    ELSE IF version = V_1_19
    THEN <<Chat(text), Optional(unsigned), Varint(position), Uuid(1),
           Chat(SenderName), Rest>>
    ELSE IF version >= V_1_8
    THEN <<Chat(text), Byte(position)>>
         \o (IF version > V_1_8 THEN <<Uuid(1)>> ELSE <<>>)
    ELSE <<Chat(text)>>

DownstreamChatMessageOf(texts, unsigneds, positions) ==
    \E b \in Bridges, text \in texts, unsigned \in unsigneds, position \in positions :
        LET version == downstream[b].protocol_version
            payload == DownstreamChatMessagePayload(version, text, unsigned, position)
        IN  /\ Forwarding(b)
            /\ (version < V_1_19 \/ text \notin Bases) => unsigned = <<>>
            /\ version < V_1_8 => position = 0
            /\ ev' = Event("packet_downstream_chat_message", b, text, position, payload)
            /\ Commit(b, packet_downstream_chat_message(Self(b), Received(payload)))

RecvDownstreamChatMessage ==
    /\ DownstreamChatMessageOf(Texts, Unsigned, Positions)
    /\ UNCHANGED history

Next ==
    \/ Accept
    \/ AuthOk
    \/ MakeProfile
    \/ UpstreamReady
    \/ DownstreamConnectionLost
    \/ UpstreamConnectionLost
    \/ RecvUpstreamChatCommand
    \/ RecvUpstreamChatMessage
    \/ RecvDownstreamChatMessage

Spec == Init /\ [][Next]_vars

(* Several client sessions side by side, each with its own bridge; the     *)
(* inputs are one text of each kind the handlers tell apart.               *)
MaxBridges == 2
SlashHelp == <<"/", "h", "e", "l", "p">>
PlayerChat == <<"<", "A", "l", "i", "c", "e", ">", " ", "h", "i">>
ServerNotice ==
    <<"S", "e", "r", "v", "e", "r", " ", "r", "e", "s", "t", "a", "r", "t",
      "i", "n", "g">>
SessionMessages == {SlashQuiet, SlashHelp, PlayerChat}
SessionCommands == {Quiet, SlashHelp}
ServerMessages == {PlayerChat, ServerNotice}
ServerPositions == {0, 1}
SessionStores == {NoFile, File(<<Account(StoredId)>>)}

AcceptAnother ==
    /\ Len(quiet_mode) < MaxBridges
    /\ AcceptOf({V_1_19})

AuthOkSession == AuthOkOf({NoData, Data(SessionId)}, SessionStores)

MakeProfileSession == MakeProfileOf(SessionStores)

SessionChatCommand ==
    /\ UpstreamChatCommandOf(SessionCommands)
    /\ UNCHANGED history

SessionChatMessage ==
    /\ UpstreamChatMessageOf(SessionMessages)
    /\ UNCHANGED history

ServerChatMessage ==
    /\ DownstreamChatMessageOf(ServerMessages, {<<>>}, ServerPositions)
    /\ UNCHANGED history

NextMulti ==
    \/ AcceptAnother
    \/ AuthOkSession
    \/ MakeProfileSession
    \/ UpstreamReady
    \/ DownstreamConnectionLost
    \/ UpstreamConnectionLost
    \/ SessionChatCommand
    \/ SessionChatMessage
    \/ ServerChatMessage

SpecMulti == Init /\ [][NextMulti]_vars

(* One session with a log of its traffic: the chat messages received from  *)
(* each peer, those forwarded to the upstream, every packet delivered to   *)
(* the downstream (with the handler and input that produced it), and the   *)
(* number of toggles handled.  Handlers run one at a time, each to its     *)
(* end: none of them yields to the reactor.                                *)
MaxLog == 4
LogVersions == {V_1_8, V_1_19}

IsToggle(e) ==
    \/ e.op = "packet_upstream_chat_message" /\ startswith(e.text, SlashQuiet)
    \/ e.op = "packet_upstream_chat_command" /\ e.text = Quiet

IsChatMessage(packet) == packet.name = "chat_message"

RECURSIVE Delivered(_, _)
Delivered(packets, e) ==
    IF packets = <<>> THEN <<>>
    ELSE <<[packet |-> Head(packets), from |-> e.op, text |-> e.text,
            position |-> e.position]>> \o Delivered(Tail(packets), e)

Logged ==
    /\ history.steps < MaxLog
    /\ history' =
          [ steps |-> history.steps + 1,
            recv_up |->
                IF ev'.op = "packet_upstream_chat_message"
                THEN Append(history.recv_up, Packet("chat_message", ev'.payload))
                ELSE history.recv_up,
            fwd_up |-> history.fwd_up \o SelectSeq(sent_upstream', IsChatMessage),
            recv_down |->
                IF ev'.op = "packet_downstream_chat_message"
                THEN Append(history.recv_down, Packet("chat_message", ev'.payload))
                ELSE history.recv_down,
            delivered |-> history.delivered \o Delivered(sent_downstream', ev'),
            toggles |-> history.toggles + (IF IsToggle(ev') THEN 1 ELSE 0) ]

AcceptLogged ==
    /\ Bridges = {}
    /\ AcceptOf(LogVersions)

LoggedChatCommand ==
    /\ UpstreamChatCommandOf(SessionCommands)
    /\ Logged

LoggedChatMessage ==
    /\ UpstreamChatMessageOf(SessionMessages)
    /\ Logged

LoggedServerChatMessage ==
    /\ DownstreamChatMessageOf(ServerMessages, {<<>>}, ServerPositions)
    /\ Logged

NextLog ==
    \/ AcceptLogged
    \/ AuthOkSession
    \/ MakeProfileSession
    \/ UpstreamReady
    \/ DownstreamConnectionLost
    \/ UpstreamConnectionLost
    \/ LoggedChatCommand
    \/ LoggedChatMessage
    \/ LoggedServerChatMessage

SpecLog == Init /\ [][NextLog]_vars

TypeOK ==
    /\ quiet_mode \in Seq(BOOLEAN)
    /\ upstream \in Seq({"None", "open", "closed"})
    /\ DOMAIN upstream = Bridges
    /\ DOMAIN downstream = Bridges
    /\ DOMAIN stage = Bridges
    /\ raised \in {"none", "AttributeError", "IndexError", "KeyError", "TypeError",
                    "ValueError", "RuntimeError: no credentials",
                    "RuntimeError: no uuid in credentials"}
    /\ history.steps \in 0..MaxLog
    /\ history.toggles \in 0..MaxLog
    /\ \A b \in Bridges :
          /\ downstream[b].closed \in BOOLEAN
          /\ downstream[b].protocol_version \in Versions
          /\ stage[b] \in {"login", "joined", "connecting", "failed"}

----------------------------------------------------------------------------
(* Properties *)

Version(b) == downstream[b].protocol_version
Forwarded(name) == <<Packet(name, ev.payload)>>
NoticeText(packet) == packet.data[1].s

(* C1: when the downstream connection closes while the bridge is Bridged,  *)
(* the bridge is DetachedUpstreamOnly afterwards: the upstream connection  *)
(* is still open and quiet mode has the value it had before the close.     *)
C1_DownstreamCloseKeepsUpstream ==
    (ev.op = "downstream_disconnected" /\ ev.state = "Bridged") =>
        /\ State(ev.b) = "DetachedUpstreamOnly"
        /\ upstream[ev.b] = "open"
        /\ downstream[ev.b].closed
        /\ quiet_mode[ev.b] = ev.quiet

C1_Witness ==
    /\ ev.op = "downstream_disconnected"
    /\ ev.state = "Bridged"
    /\ ev.quiet
    /\ State(ev.b) = "DetachedUpstreamOnly"
    /\ quiet_mode[ev.b]

(* C2: an upstream-bound chat message whose text does not start with "/",  *)
(* handled while quiet mode is enabled, is not forwarded to the upstream;  *)
(* exactly one notice (the "can't send" text) goes to the downstream and   *)
(* quiet mode stays enabled.                                               *)
C2_QuietSuppressesPlainChat ==
    ( /\ ev.op = "packet_upstream_chat_message"
      /\ ev.quiet
      /\ ~ startswith(ev.text, <<"/">>) ) =>
        /\ sent_upstream = <<>>
        /\ Len(sent_downstream) = 1
        /\ NoticeText(sent_downstream[1]) = CantSend
        /\ quiet_mode[ev.b] = ev.quiet

C2_Witness ==
    /\ ev.op = "packet_upstream_chat_message"
    /\ ev.quiet
    /\ ev.text # <<>>
    /\ ~ startswith(ev.text, <<"/">>)
    /\ sent_upstream = <<>>
    /\ Len(sent_downstream) = 1

(* C3: an upstream-bound chat message whose text starts with "/quiet", in  *)
(* every protocol version and whatever quiet mode was, flips quiet mode,   *)
(* sends exactly one notice naming the new state to the downstream and is  *)
(* not forwarded to the upstream.                                          *)
C3_SlashQuietToggles ==
    ( /\ ev.op = "packet_upstream_chat_message"
      /\ startswith(ev.text, SlashQuiet) ) =>
        /\ quiet_mode[ev.b] = ~ ev.quiet
        /\ Len(sent_downstream) = 1
        /\ NoticeText(sent_downstream[1]) =
               QuietModePrefix \o (IF ev.quiet THEN Disabled ELSE Enabled)
        /\ sent_upstream = <<>>

C3_Witness ==
    /\ ev.op = "packet_upstream_chat_message"
    /\ startswith(ev.text, SlashQuiet)
    /\ ev.text # SlashQuiet
    /\ ev.quiet
    /\ ~ quiet_mode[ev.b]
    /\ Version(ev.b) < V_1_8
    /\ Len(sent_downstream) = 1

(* C4: an upstream-bound chat_command whose payload is exactly "quiet"     *)
(* flips quiet mode and is not forwarded; with any other payload quiet     *)
(* mode is unchanged and the command goes to the upstream with its         *)
(* complete original payload, whether quiet mode is on or off.             *)
C4_CommandQuietOrForward ==
    (ev.op = "packet_upstream_chat_command") =>
        IF ev.text = Quiet
        THEN /\ quiet_mode[ev.b] = ~ ev.quiet
             /\ sent_upstream = <<>>
        ELSE /\ quiet_mode[ev.b] = ev.quiet
             /\ sent_upstream = Forwarded("chat_command")

(* C5: from protocol version 759 on, with quiet mode enabled, every        *)
(* downstream-bound chat_message of a chat position (neither system nor    *)
(* game info) is suppressed, whatever its text.                            *)
C5_SignedEpochSuppressesChat ==
    ( /\ ev.op = "packet_downstream_chat_message"
      /\ ev.quiet
      /\ Version(ev.b) >= V_1_19
      /\ ev.position \notin {1, 2} ) =>
        /\ sent_downstream = <<>>
        /\ sent_upstream = <<>>

C5_Witness ==
    /\ ev.op = "packet_downstream_chat_message"
    /\ ev.quiet
    /\ ev.state = "Bridged"
    /\ Version(ev.b) >= V_1_19_1
    /\ ev.position = 0
    /\ ~ startswith(ev.text, <<"<">>)
    /\ ev.text # <<>>
    /\ sent_downstream = <<>>

(* C6: in every protocol version that carries a position, a downstream-    *)
(* bound message whose position is system (1) or game info (2) is          *)
(* forwarded to the attached downstream unchanged even with quiet mode     *)
(* enabled.                                                                *)
C6_SystemNeverTouched ==
    ( /\ ev.op = "packet_downstream_chat_message"
      /\ ev.quiet
      /\ ev.state = "Bridged"
      /\ ev.position \in {1, 2} ) =>
        sent_downstream = Forwarded("chat_message")

(* C7: below protocol version 759, with quiet mode enabled, a downstream-  *)
(* bound chat_message is suppressed exactly when it decodes as chat        *)
(* (from version 47: position neither 1 nor 2 and text not blank; below    *)
(* 47: always) and its text begins with "<"; otherwise it is forwarded to  *)
(* the attached downstream unchanged.                                      *)
DecodesAsChat(version, position, text) ==
    version >= V_1_8 => (position \notin {1, 2} /\ strip(text) # <<>>)

C7_ClassicSuppressesPlayerChat ==
    ( /\ ev.op = "packet_downstream_chat_message"
      /\ ev.quiet
      /\ ev.state = "Bridged"
      /\ Version(ev.b) < V_1_19 ) =>
        IF /\ DecodesAsChat(Version(ev.b), ev.position, ev.text)
           /\ startswith(ev.text, <<"<">>)
        THEN sent_downstream = <<>>
        ELSE sent_downstream = Forwarded("chat_message")

C7_Witness ==
    /\ ev.op = "packet_downstream_chat_message"
    /\ ev.quiet
    /\ ev.state = "Bridged"
    /\ Version(ev.b) = V_1_8
    /\ ev.position = 0
    /\ ev.text = <<"<", "A", "l", "i", "c", "e", ">", " ", "h", "i">>
    /\ sent_downstream = <<>>

(* C8 as stated: for every protocol version, a notice produced by         *)
(* send_system, decoded by the downstream-bound chat decoder of the same   *)
(* version, has position system (1) and passes the downstream-bound filter *)
(* with quiet mode enabled.  A system_message packet counts as position    *)
(* system and as exempt: the chat filter never handles it.  Stated for the *)
(* versions whose wire shape carries a position (47 and later).            *)
IsNoticeStep ==
    /\ ev.op \in {"packet_upstream_chat_message", "packet_upstream_chat_command"}
    /\ sent_downstream # <<>>

DecodedNotice(b, notice) ==
    read_chat(Self(b), Received(notice.data), "downstream")

NoticePosition(b, notice) ==
    IF notice.name = "system_message" THEN 1
    ELSE DecodedNotice(b, notice).p_position

FilterForwards(b, notice) ==
    packet_downstream_chat_message(
        [Self(b) EXCEPT !.quiet_mode = TRUE], Received(notice.data)).sent_downstream
      = <<Packet("chat_message", notice.data)>>

C8_NoticeDecodesAsSystem ==
    (IsNoticeStep /\ Version(ev.b) >= V_1_8) =>
        \A i \in DOMAIN sent_downstream :
            LET notice == sent_downstream[i]
            IN  /\ NoticePosition(ev.b, notice) = 1
                /\ notice.name = "chat_message" => FilterForwards(ev.b, notice)

(* C8 amended: for every protocol version a notice produced by send_system *)
(* is exempt from downstream-bound suppression.  From version 759 on it is *)
(* a system_message packet, which the chat filter never handles.  Below    *)
(* 759 it is a chat_message packet which the chat decoder of that version  *)
(* decodes as chat with the notice's own text (from version 47: position   *)
(* code 0, not system), and which the filter with quiet mode enabled       *)
(* forwards unchanged.                                                     *)
C8_NoticeExemptFromFilter ==
    IsNoticeStep =>
        \A i \in DOMAIN sent_downstream :
            LET notice == sent_downstream[i]
                version == Version(ev.b)
            IN  IF version >= V_1_19
                THEN notice.name = "system_message"
                ELSE /\ notice.name = "chat_message"
                     /\ DecodedNotice(ev.b, notice).ret = Str(NoticeText(notice))
                     /\ version >= V_1_8 =>
                            DecodedNotice(ev.b, notice).p_position = 0
                     /\ FilterForwards(ev.b, notice)

C8_Witness ==
    /\ IsNoticeStep
    /\ Version(ev.b) = V_1_8
    /\ Len(sent_downstream) = 1
    /\ NoticeText(sent_downstream[1]) = CantSend
    /\ FilterForwards(ev.b, sent_downstream[1])

(* C9: an upstream-bound chat message that neither starts with "/quiet"    *)
(* nor is suppressed by quiet mode (quiet mode off, or text starting with  *)
(* "/") goes to the upstream exactly once with its original payload; no    *)
(* notice is sent to the downstream and quiet mode is unchanged.           *)
C9_OtherChatForwardedVerbatim ==
    ( /\ ev.op = "packet_upstream_chat_message"
      /\ ~ startswith(ev.text, SlashQuiet)
      /\ (~ ev.quiet \/ startswith(ev.text, <<"/">>)) ) =>
        /\ sent_upstream = Forwarded("chat_message")
        /\ sent_downstream = <<>>
        /\ quiet_mode[ev.b] = ev.quiet

C9_Witness ==
    /\ ev.op = "packet_upstream_chat_message"
    /\ ev.quiet
    /\ ev.text = <<"/", "h", "e", "l", "p">>
    /\ Version(ev.b) >= V_1_19
    /\ Len(ev.payload) = 2
    /\ sent_upstream = Forwarded("chat_message")

(* C10: while the bridge is DetachedUpstreamOnly, a downstream-bound chat  *)
(* message from the upstream is dropped: nothing is written to either      *)
(* peer, no exception is raised, and the bridge is still                   *)
(* DetachedUpstreamOnly with the upstream open and quiet mode unchanged.   *)
C10_DetachedDropsDownstreamBound ==
    ( /\ ev.op = "packet_downstream_chat_message"
      /\ ev.state = "DetachedUpstreamOnly" ) =>
        /\ sent_downstream = <<>>
        /\ sent_upstream = <<>>
        /\ raised = "none"
        /\ State(ev.b) = "DetachedUpstreamOnly"
        /\ upstream[ev.b] = "open"
        /\ quiet_mode[ev.b] = ev.quiet

C10_Witness ==
    /\ ev.op = "packet_downstream_chat_message"
    /\ ev.state = "DetachedUpstreamOnly"
    /\ ~ ev.quiet
    /\ ev.position = 0
    /\ ev.text # <<>>
    /\ sent_downstream = <<>>
    /\ State(ev.b) = "DetachedUpstreamOnly"

(* C11: when the upstream connection closes, from Bridged or from          *)
(* DetachedUpstreamOnly, the bridge is Terminated afterwards; and a bridge *)
(* that is Terminated is Terminated after every later step.                *)
C11_UpstreamCloseTerminates ==
    [][ /\ (ev.op = "upstream_disconnected")' =>
              /\ ev'.state \in {"Bridged", "DetachedUpstreamOnly"}
              /\ ev'.state = State(ev'.b)
              /\ State(ev.b)' = "Terminated"
        /\ \A b \in Bridges :
              State(b) = "Terminated" => State(b)' = "Terminated" ]_vars

C11_Witness ==
    /\ ev.op = "upstream_disconnected"
    /\ ev.state = "DetachedUpstreamOnly"
    /\ State(ev.b) = "Terminated"
    /\ upstream[ev.b] = "closed"

(* C12: auth_ok without data substitutes the id held by the credential     *)
(* store and the login goes on; without a usable stored id the login ends  *)
(* with an exception, and the exception for an absent or empty store       *)
(* differs from the one for an entry without an id.  With data, the data   *)
(* is passed on unchanged and the store is not read.                       *)
HasEntry(store) == store.isfile /\ store.accounts # <<>>
HasStoredId(store) ==
    HasEntry(store) /\ store.accounts[1].id \notin {Missing, Null, ""}
EntryWithoutId == {store \in Stores : HasEntry(store) /\ ~ HasStoredId(store)}

C12_AuthOkFallback ==
    (ev.op = "auth_ok") =>
        IF ~ ev.data.none
        THEN /\ raised = "none"
             /\ returned.data = ev.data
             /\ returned.reads = 0
        ELSE IF HasStoredId(ev.store)
        THEN /\ raised = "none"
             /\ returned.data = Data(ev.store.accounts[1].id)
        ELSE /\ raised # "none"
             /\ ~ HasEntry(ev.store) =>
                    \A store \in EntryWithoutId :
                        raised # auth_ok(NoData, store).raised

C12_Witness ==
    /\ ev.op = "auth_ok"
    /\ ev.data.none
    /\ ev.store = File(<<>>)
    /\ raised # "none"

(* C16: make_profile returns the authenticated profile (display name, id   *)
(* and access token of the stored account) when the credential store has   *)
(* an entry with an id, and the offline profile with the downstream's      *)
(* display name when the store has no entry; without an entry it raises    *)
(* nothing.                                                                *)
C16_ProfileResolution ==
    (ev.op = "make_profile") =>
        IF HasStoredId(ev.store)
        THEN LET account == ev.store.accounts[1]
             IN  /\ raised = "none"
                 /\ returned.profile =
                        Profile(account.name, account.ygg_token,
                                account.ygg_token, account.id)
        ELSE ~ HasEntry(ev.store) =>
                /\ raised = "none"
                /\ returned.profile = OfflineProfile(downstream[ev.b].display_name)

(* C19: with quiet mode disabled, a downstream-bound chat_message, in      *)
(* every protocol version and for every position and text, goes to the     *)
(* attached downstream exactly once with its complete original payload.    *)
C19_DisabledForwardsEverything ==
    ( /\ ev.op = "packet_downstream_chat_message"
      /\ ~ ev.quiet
      /\ ev.state = "Bridged" ) =>
        /\ sent_downstream = Forwarded("chat_message")
        /\ sent_upstream = <<>>
        /\ raised = "none"
        /\ quiet_mode[ev.b] = ev.quiet

C19_Witness ==
    /\ ev.op = "packet_downstream_chat_message"
    /\ ~ ev.quiet
    /\ ev.state = "Bridged"
    /\ Version(ev.b) = V_1_19
    /\ ev.position = 0
    /\ startswith(ev.text, <<"<">>)
    /\ Len(ev.payload) = 6
    /\ sent_downstream = Forwarded("chat_message")

(* C13: when auth_ok gets no data and the credential store holds no        *)
(* identity, the bridge of that connection is Terminated and stays so (it  *)
(* is never Bridged); every other bridge is as it was, and while the bound *)
(* on sessions allows it a further connection can still be accepted.       *)
C13_FailedLoginEndsOnlyItsBridge ==
    [][ /\ (ev.op = "auth_ok" /\ ev.data.none /\ ~ HasStoredId(ev.store))' =>
              /\ State(ev.b)' = "Terminated"
              /\ Bridges' = Bridges
              /\ \A c \in Bridges \ {ev'.b} :
                    /\ State(c)' = State(c)
                    /\ quiet_mode'[c] = quiet_mode[c]
                    /\ upstream'[c] = upstream[c]
                    /\ downstream'[c] = downstream[c]
              /\ (Len(quiet_mode) < MaxBridges => ENABLED AcceptAnother)'
        /\ \A b \in Bridges :
              stage[b] = "failed" => State(b)' = "Terminated" ]_vars

C13_Witness ==
    /\ ev.op = "auth_ok"
    /\ ev.data.none
    /\ ev.store = NoFile
    /\ ev.b = 2
    /\ raised # "none"
    /\ State(2) = "Terminated"
    /\ State(1) = "Bridged"
    /\ quiet_mode[1]

(* C14: when a downstream connection is accepted while bridges are         *)
(* DetachedUpstreamOnly, one of those bridges is Bridged afterwards, with  *)
(* the upstream connection it kept and its quiet mode as it was.           *)
C14_DetachedBridgeReattached ==
    (ev.op = "accept" /\ ev.detached # {}) =>
        \E b \in ev.detached :
            /\ State(b) = "Bridged"
            /\ upstream[b] = "open"
            /\ ~ downstream[b].closed

(* C15: quiet mode is per bridge: a step changes the flag of a bridge only *)
(* when that bridge handles a toggle (a chat text starting with "/quiet"   *)
(* or the command "quiet"), which flips it; the flags of all other bridges *)
(* are unchanged, and a bridge just created has quiet mode disabled.       *)
C15_QuietModePerBridge ==
    [][ /\ \A b \in Bridges :
              quiet_mode'[b] # quiet_mode[b] => (ev'.b = b /\ IsToggle(ev'))
        /\ IsToggle(ev') => quiet_mode'[ev'.b] = ~ quiet_mode[ev'.b]
        /\ \A b \in Bridges' \ Bridges : ~ quiet_mode'[b] ]_vars

C15_Witness ==
    /\ Len(quiet_mode) >= 2
    /\ IsToggle(ev)
    /\ ev.b = 2
    /\ ev.quiet
    /\ State(1) = "Bridged"
    /\ State(2) = "Bridged"
    /\ quiet_mode[1]
    /\ ~ quiet_mode[2]

(* C17: arrival order is kept in each direction: the chat messages         *)
(* forwarded to the upstream are, in order and without repetition, among   *)
(* those received from the downstream, and the chat messages forwarded to  *)
(* the downstream are, in order and without repetition, among those        *)
(* received from the upstream.                                             *)
RECURSIVE IsSubsequence(_, _)
IsSubsequence(s, t) ==
    IF s = <<>> THEN TRUE
    ELSE IF t = <<>> THEN FALSE
    ELSE IF Head(s) = Head(t) THEN IsSubsequence(Tail(s), Tail(t))
    ELSE IsSubsequence(s, Tail(t))

FromServer(e) == e.from = "packet_downstream_chat_message"

RECURSIVE Packets(_)
Packets(entries) ==
    IF entries = <<>> THEN <<>>
    ELSE <<Head(entries).packet>> \o Packets(Tail(entries))

ForwardedDown == Packets(SelectSeq(history.delivered, FromServer))

C17_OrderPreserved ==
    /\ IsSubsequence(history.fwd_up, history.recv_up)
    /\ IsSubsequence(ForwardedDown, history.recv_down)

C17_Witness ==
    /\ Len(history.recv_up) = 2
    /\ Len(history.fwd_up) = 1
    /\ Len(history.recv_down) = 2
    /\ Len(ForwardedDown) = 1

(* C18: in the packets delivered to the downstream, no suppressible chat   *)
(* message (from version 759: any message of a chat position; before: a    *)
(* message that decodes as chat and whose text starts with "<") comes      *)
(* after a "Quiet mode enabled" notice unless a "Quiet mode disabled"      *)
(* notice lies between them.                                               *)
IsToggleNotice(e) ==
    /\ ~ FromServer(e)
    /\ NoticeText(e.packet) \in {QuietModePrefix \o Enabled, QuietModePrefix \o Disabled}

Suppressible(version, e) ==
    /\ FromServer(e)
    /\ IF version >= V_1_19
       THEN e.position \notin {1, 2}
       ELSE DecodesAsChat(version, e.position, e.text) /\ startswith(e.text, <<"<">>)

NoticesBefore(k) == {j \in 1..(k - 1) : IsToggleNotice(history.delivered[j])}

LastNoticeBefore(k) == CHOOSE j \in NoticesBefore(k) : \A i \in NoticesBefore(k) : i <= j

EnabledAt(k) ==
    /\ NoticesBefore(k) # {}
    /\ NoticeText(history.delivered[LastNoticeBefore(k)].packet) = QuietModePrefix \o Enabled

C18_ToggleAtomicForFilter ==
    \A b \in Bridges :
        \A k \in DOMAIN history.delivered :
            Suppressible(Version(b), history.delivered[k]) => ~ EnabledAt(k)

C18_Witness ==
    /\ Len(history.recv_down) = 2
    /\ Len(history.delivered) = 4
    /\ EnabledAt(2)
    /\ FromServer(history.delivered[2])
    /\ ~ EnabledAt(4)
    /\ Suppressible(Version(1), history.delivered[4])

(* C20: quiet mode is enabled exactly when the bridge has handled an odd   *)
(* number of toggles; every toggle put exactly one notice on the           *)
(* downstream, naming the new state, so the toggle notices read enabled,   *)
(* disabled, enabled, ... in the order delivered.                          *)
ToggleNotices == SelectSeq(history.delivered, IsToggleNotice)

C20_ToggleParity ==
    \A b \in Bridges :
        /\ quiet_mode[b] = (history.toggles % 2 = 1)
        /\ Len(ToggleNotices) = history.toggles
        /\ \A i \in DOMAIN ToggleNotices :
              NoticeText(ToggleNotices[i].packet) =
                  QuietModePrefix \o (IF i % 2 = 1 THEN Enabled ELSE Disabled)

C20_Witness ==
    /\ history.toggles = 3
    /\ Len(ToggleNotices) = 3
    /\ quiet_mode[1]
    /\ ev.op = "packet_upstream_chat_command"

====
